---- MODULE Spec2Model ----
(***************************************************************************)
(* Model of the ERC-8001 SDK utilities (utils.ts): participant             *)
(* canonicalization, the intent builder, the validators and the Merkle     *)
(* bounds engine.                                                          *)
(*                                                                         *)
(* The utilities are pure functions of their arguments and of the wall     *)
(* clock.  A behaviour is one call: Init draws the arguments (variable     *)
(* call), the action of the operation applies the function and stores      *)
(* what it returned or threw (variable ret), and Tick advances the clock   *)
(* (variable now, Date.now()/1000 floored).                                *)
(*                                                                         *)
(* Values:                                                                 *)
(*   Address  [val |-> uint160 value, form |-> spelling of the hex string] *)
(*            getAddress rewrites the spelling to the checksum form;       *)
(*            BigInt reads the value                                       *)
(*   Hash     a sequence of integers, the term the digest was computed     *)
(*            from behind a tag (keccak256 is collision-free, and          *)
(*            BigInt(hash) is a fixed total order on the terms)            *)
(*   optional a sequence of length 0 (absent) or 1 (present)               *)
(*                                                                         *)
(* The methods of CoordinationClient that await the ledger run in steps:   *)
(* variable proc holds the position of the running method (pc), its        *)
(* locals and the transactions it has submitted.  The ledger's answers     *)
(* are part of the call's arguments (call.reports, call.report).           *)
(* Variable peer is a second invocation of propose running beside the      *)
(* first, ledger is what the contract holds (the agent's nonce and the     *)
(* proposals submitted to it), and policyActions is BoundedClient's cache  *)
(* of the action lists of registered policies.                             *)
(***************************************************************************)
EXTENDS Integers, Sequences, FiniteSets, TLC

VARIABLES call, ret, now, proc, peer, ledger, policyActions

vars == <<call, ret, now, proc, peer, ledger, policyActions>>

\* ------------------------------------------------------------------ bounds

\* largest uint160 value an address takes
MaxAddr == 2
\* most calls made on one BoundedClient
MaxCalls == 2
\* most policies the contract registers
MaxPolicies == 1
\* longest raw participant list handed to the participant utilities
MaxLen == 3
\* longest participant list of an intent, an options value or a status
MaxParticipants == 2
\* largest value of the clock (seconds)
MaxNow == 2
\* largest nonce the ledger reports
MaxNonce == 1
\* longest action list of a policy
MaxActions == 4
\* largest target value of an action
MaxTarget == 1
\* longest run of status reports the ledger gives one waitForReady
MaxPolls == 3
\* largest timeoutMs of waitForReady, in units of the clock
MaxTimeout == 3
\* largest pollIntervalMs of waitForReady, in units of the clock
MaxInterval == 2

\* ------------------------------------------------------------- value sets

Forms == {"lower", "checksum"}

Addresses == [val : 0..MaxAddr, form : Forms]

RECURSIVE SeqsUpTo(_, _)
SeqsUpTo(S, n) ==
  IF n = 0 THEN {<<>>}
  ELSE LET shorter == SeqsUpTo(S, n - 1)
       IN  shorter \cup {Append(s, x) : s \in {t \in shorter : Len(t) = n - 1}, x \in S}

\* a client that has not started a method
Idle ==
  [pc |-> "idle", startTime |-> 0, reads |-> 0, sleeps |-> 0, status |-> <<>>,
   txs |-> <<>>, cancelledAt |-> <<>>, nonce |-> <<>>, msg |-> <<>>,
   sigs |-> <<>>]

\* the contract before any proposal: the agent's nonce, no proposal, no policy
NoLedger == [nonce |-> 0, proposed |-> <<>>, policies |-> <<>>]

\* new Map()
EmptyMap == [policyId \in {} |-> <<>>]

Pending == [kind |-> "pending"]
Ok(v) == [kind |-> "ok", val |-> v]
Error(m) == [kind |-> "error", msg |-> m]

\* ---------------------------------------------------- participant utilities

\* the address as it was spelled, not normalized
getAddressAsGiven(a) == a

\* viem getAddress: the checksum spelling of the same 160-bit value
getAddress(a) == [val |-> a.val, form |-> "checksum"]

\* BigInt(address): the unsigned integer value, whatever the spelling
BigInt(a) == a.val

\* participants.map(p => getAddress(p))
RECURSIVE MapGetAddress(_)
MapGetAddress(s) ==
  IF s = <<>> THEN <<>> ELSE <<getAddress(Head(s))>> \o MapGetAddress(Tail(s))

Contains(s, x) == \E i \in 1..Len(s) : s[i] = x

\* Array.from(new Set(xs)): first occurrences, in insertion order
RECURSIVE UniqueFrom(_, _)
UniqueFrom(s, acc) ==
  IF s = <<>> THEN acc
  ELSE UniqueFrom(Tail(s), IF Contains(acc, Head(s)) THEN acc ELSE Append(acc, Head(s)))

\* a dedupe that only drops a value equal to the one before it
RECURSIVE UniqueAdjacentFrom(_, _)
UniqueAdjacentFrom(s, acc) ==
  IF s = <<>> THEN acc
  ELSE UniqueAdjacentFrom(Tail(s),
         IF acc # <<>> /\ acc[Len(acc)] = Head(s) THEN acc ELSE Append(acc, Head(s)))

UniqueAdjacent(s) == UniqueAdjacentFrom(s, <<>>)

Unique(s) == UniqueFrom(s, <<>>)

\* the comparator of the sort: -1, 0 or 1 by uint160 value
CompareAddress(a, b) ==
  IF BigInt(a) < BigInt(b) THEN 0 - 1
  ELSE IF BigInt(a) > BigInt(b) THEN 1
  ELSE 0

\* Array.prototype.sort(cmp): a stable sort, here by insertion
RECURSIVE InsertSorted(_, _)
InsertSorted(sorted, x) ==
  IF sorted = <<>> THEN <<x>>
  ELSE IF CompareAddress(x, Head(sorted)) < 0 THEN <<x>> \o sorted
  ELSE <<Head(sorted)>> \o InsertSorted(Tail(sorted), x)

RECURSIVE SortFrom(_, _)
SortFrom(s, acc) ==
  IF s = <<>> THEN acc ELSE SortFrom(Tail(s), InsertSorted(acc, Head(s)))

SortByUint160(s) == SortFrom(s, <<>>)

canonicalizeParticipants(participants) ==
  SortByUint160(Unique(MapGetAddress(participants)))

\* the loop of isCanonical from position i (1-based): false at the first
\* element that is <= the one before it
RECURSIVE IsCanonicalFrom(_, _)
IsCanonicalFrom(participants, i) ==
  IF i > Len(participants) THEN TRUE
  ELSE IF BigInt(participants[i]) <= BigInt(participants[i - 1]) THEN FALSE
  ELSE IsCanonicalFrom(participants, i + 1)

\* the loop with < in place of <=: equal neighbours pass
RECURSIVE IsCanonicalLooseFrom(_, _)
IsCanonicalLooseFrom(participants, i) ==
  IF i > Len(participants) THEN TRUE
  ELSE IF BigInt(participants[i]) < BigInt(participants[i - 1]) THEN FALSE
  ELSE IsCanonicalLooseFrom(participants, i + 1)

isCanonicalLoose(participants) == IsCanonicalLooseFrom(participants, 2)

isCanonical(participants) == IsCanonicalFrom(participants, 2)

isParticipant(address, participants) ==
  LET checksummed == getAddress(address)
  IN  \E i \in 1..Len(participants) : getAddress(participants[i]) = checksummed

\* ------------------------------------------------------------------ calls

ParticipantLists == SeqsUpTo(Addresses, MaxLen)

ParticipantCalls ==
  [op : {"canonicalizeParticipants", "isCanonical"}, participants : ParticipantLists]
    \cup [op : {"isParticipant"}, address : Addresses, participants : ParticipantLists]

CanonicalizeParticipants ==
  /\ call.op = "canonicalizeParticipants"
  /\ ret = Pending
  /\ ret' = Ok(canonicalizeParticipants(call.participants))
  /\ UNCHANGED <<call, now, proc, peer, ledger, policyActions>>

IsCanonical ==
  /\ call.op = "isCanonical"
  /\ ret = Pending
  /\ ret' = Ok(isCanonical(call.participants))
  /\ UNCHANGED <<call, now, proc, peer, ledger, policyActions>>

IsParticipant ==
  /\ call.op = "isParticipant"
  /\ ret = Pending
  /\ ret' = Ok(isParticipant(call.address, call.participants))
  /\ UNCHANGED <<call, now, proc, peer, ledger, policyActions>>

InitParticipants ==
  /\ call \in ParticipantCalls
  /\ ret = Pending
  /\ now = 0
  /\ proc = Idle
  /\ peer = Idle
  /\ ledger = NoLedger
  /\ policyActions = EmptyMap

NextParticipants == CanonicalizeParticipants \/ IsCanonical \/ IsParticipant

SpecParticipants == InitParticipants /\ [][NextParticipants]_vars

\* ------------------------------------------------------------ the clock

\* Date.now() moves on while a call has not run yet; what the call returned
\* is compared with the clock it read
Tick ==
  /\ ret = Pending
  /\ now < MaxNow
  /\ now' = now + 1
  /\ UNCHANGED <<call, ret, proc, peer, ledger, policyActions>>

\* --------------------------------------------------------- intent builder

\* const ttl = options.ttlSeconds ?? 3600
DefaultTtl == 3600

\* keccak256(encodePacked(['string'], [name])) of the label numbered id
coordinationType(id) == <<3, id>>

\* keccak256 of the six fixed-width fields; the two byte strings are hashed
\* first (tag 4)
computePayloadHash(payload) ==
  <<2, payload.version, payload.coordinationType, 4, payload.coordinationData,
    payload.conditionsHash, payload.timestamp, 4, payload.metadata>>

\* options.coordinationType is a 66-character 0x string (a raw hash, kept as
\* it is, tag 5) or a label (hashed)
ResolveCoordinationType(c) ==
  IF c.startsWith0x /\ c.length = 66 THEN <<5, c.id>> ELSE coordinationType(c.id)

\* the nonce as read, not incremented
SameNonce(nonce) == nonce

\* nonce + 1n
NextNonce(nonce) == nonce + 1

\* the caller's list canonicalized, agentId not added
IntentParticipantsAsGiven(options) == canonicalizeParticipants(options.participants)

\* the participants of the intent: agentId pushed when absent, then
\* canonicalized
IntentParticipants(options) ==
  LET participants ==
        IF ~isParticipant(options.agentId, options.participants)
        THEN Append(options.participants, options.agentId)
        ELSE options.participants
  IN  canonicalizeParticipants(participants)

createIntent(options, nonce, clock) ==
  LET participants == IntentParticipants(options)
      payload == [version |-> options.payload.version,
                  coordinationType |-> options.payload.coordinationType,
                  coordinationData |-> options.payload.coordinationData,
                  conditionsHash |-> options.payload.conditionsHash,
                  metadata |-> options.payload.metadata,
                  timestamp |-> clock]
      payloadHash == computePayloadHash(payload)
      ttl == IF options.ttlSeconds = <<>> THEN DefaultTtl ELSE options.ttlSeconds[1]
      expiry == clock + ttl
      coordType == ResolveCoordinationType(options.coordinationType)
  IN  [intent |-> [payloadHash |-> payloadHash,
                   expiry |-> expiry,
                   nonce |-> NextNonce(nonce),
                   agentId |-> options.agentId,
                   coordinationType |-> coordType,
                   coordinationValue |->
                     IF options.coordinationValue = <<>> THEN 0
                     ELSE options.coordinationValue[1],
                   participants |-> participants],
       payload |-> payload]

\* ------------------------------------------------------------- validation

\* the expiry check with < in place of <=
validateIntentExpiryInclusive(intent, clock) ==
  IF intent.expiry < clock THEN Error("Intent already expired")
  ELSE IF ~isCanonical(intent.participants)
  THEN Error("Participants not canonical (must be sorted ascending)")
  ELSE IF ~isParticipant(intent.agentId, intent.participants)
  THEN Error("agentId must be in participants")
  ELSE IF Len(intent.participants) = 0
  THEN Error("At least one participant required")
  ELSE Ok(TRUE)

validateIntent(intent, clock) ==
  IF intent.expiry <= clock THEN Error("Intent already expired")
  ELSE IF ~isCanonical(intent.participants)
  THEN Error("Participants not canonical (must be sorted ascending)")
  ELSE IF ~isParticipant(intent.agentId, intent.participants)
  THEN Error("agentId must be in participants")
  ELSE IF Len(intent.participants) = 0
  THEN Error("At least one participant required")
  ELSE Ok(TRUE)

\* !attestation.signature: undefined and the empty string are falsy
Falsy(signature) == signature = <<>> \/ signature = <<"">>

\* the participant check moved before the expiry check
validateAttestationParticipantFirst(attestation, participants, clock) ==
  IF ~isParticipant(attestation.participant, participants)
  THEN Error("Participant not in required list")
  ELSE IF attestation.expiry <= clock THEN Error("Attestation already expired")
  ELSE IF Falsy(attestation.signature) \/ attestation.signature = <<"0x">>
  THEN Error("Missing signature")
  ELSE Ok(TRUE)

validateAttestation(attestation, participants, clock) ==
  IF attestation.expiry <= clock THEN Error("Attestation already expired")
  ELSE IF ~isParticipant(attestation.participant, participants)
  THEN Error("Participant not in required list")
  ELSE IF Falsy(attestation.signature) \/ attestation.signature = <<"0x">>
  THEN Error("Missing signature")
  ELSE Ok(TRUE)

\* ------------------------------------------------- intent/attestation calls

IntentLists == SeqsUpTo(Addresses, MaxParticipants)

ThePayload ==
  [version |-> 1, coordinationType |-> 1, coordinationData |-> 1,
   conditionsHash |-> 0, metadata |-> 0]

\* a label with no value, or a raw 32-byte hash with a value
OptionKinds ==
  { [coordinationType |-> [startsWith0x |-> FALSE, length |-> 8, id |-> 1],
     coordinationValue |-> <<>>],
    [coordinationType |-> [startsWith0x |-> TRUE, length |-> 66, id |-> 2],
     coordinationValue |-> <<7>>] }

TtlChoices == {<<>>, <<0 - 1>>, <<0>>, <<1>>}

CreateIntentOptions ==
  { [agentId |-> a, participants |-> p, coordinationType |-> k.coordinationType,
     coordinationValue |-> k.coordinationValue, ttlSeconds |-> t,
     payload |-> ThePayload] :
      a \in Addresses, p \in IntentLists, k \in OptionKinds, t \in TtlChoices }

Intents ==
  { [payloadHash |-> <<2>>, expiry |-> e, nonce |-> 1, agentId |-> a,
     coordinationType |-> <<3, 1>>, coordinationValue |-> 0, participants |-> p] :
      e \in 0..(MaxNow + 1), a \in Addresses, p \in IntentLists }

Signatures == {<<>>, <<"">>, <<"0x">>, <<"0x1b">>}

Attestations ==
  { [intentHash |-> <<1>>, participant |-> a, nonce |-> 0, expiry |-> e,
     conditionsHash |-> <<0>>, signature |-> s] :
      a \in Addresses, e \in 0..(MaxNow + 1), s \in Signatures }

IntentCalls ==
  [op : {"createIntent"}, options : CreateIntentOptions, nonce : 0..MaxNonce]
    \cup [op : {"validateIntent"}, intent : Intents]

AttestationCalls ==
  [op : {"validateAttestation"}, attestation : Attestations, participants : IntentLists]

CreateIntent ==
  /\ call.op = "createIntent"
  /\ ret = Pending
  /\ ret' = Ok(createIntent(call.options, call.nonce, now))
  /\ UNCHANGED <<call, now, proc, peer, ledger, policyActions>>

ValidateIntent ==
  /\ call.op = "validateIntent"
  /\ ret = Pending
  /\ ret' = validateIntent(call.intent, now)
  /\ UNCHANGED <<call, now, proc, peer, ledger, policyActions>>

ValidateAttestation ==
  /\ call.op = "validateAttestation"
  /\ ret = Pending
  /\ ret' = validateAttestation(call.attestation, call.participants, now)
  /\ UNCHANGED <<call, now, proc, peer, ledger, policyActions>>

InitIntent ==
  /\ call \in IntentCalls
  /\ ret = Pending
  /\ now = 0
  /\ proc = Idle
  /\ peer = Idle
  /\ ledger = NoLedger
  /\ policyActions = EmptyMap

NextIntent == CreateIntent \/ ValidateIntent \/ Tick

SpecIntent == InitIntent /\ [][NextIntent]_vars

InitAttestation ==
  /\ call \in AttestationCalls
  /\ ret = Pending
  /\ now = 0
  /\ proc = Idle
  /\ peer = Idle
  /\ ledger = NoLedger
  /\ policyActions = EmptyMap

NextAttestation == ValidateAttestation \/ Tick

SpecAttestation == InitAttestation /\ [][NextAttestation]_vars

\* ---------------------------------------------------- Merkle bounds engine

\* keccak256(encodePacked(['address', 'bytes4'], [target, selector])): the
\* packed bytes hold the value of the address, not its spelling
computeActionLeaf(action) == <<0, BigInt(action.target), action.selector>>

\* BigInt(a) < BigInt(b) on two digests
RECURSIVE HashLess(_, _)
HashLess(a, b) ==
  IF b = <<>> THEN FALSE
  ELSE IF a = <<>> THEN TRUE
  ELSE IF Head(a) # Head(b) THEN Head(a) < Head(b)
  ELSE HashLess(Tail(a), Tail(b))

\* a pairing that hashes the smaller digest only
hashPairFirstOnly(a, b) == IF HashLess(a, b) THEN <<1>> \o a \o a ELSE <<1>> \o b \o b

\* keccak256(first || second), the smaller digest first
hashPair(a, b) == IF HashLess(a, b) THEN <<1>> \o a \o b ELSE <<1>> \o b \o a

\* what reading an array outside 0..length-1 gives
Undefined == <<0 - 1>>

\* leaves[i], i counted from 0
At(leaves, i) == IF i >= 0 /\ i < Len(leaves) THEN leaves[i + 1] ELSE Undefined

\* actions.map(computeActionLeaf)
RECURSIVE MapLeaf(_)
MapLeaf(actions) ==
  IF actions = <<>> THEN <<>>
  ELSE <<computeActionLeaf(Head(actions))>> \o MapLeaf(Tail(actions))

\* (n & (n - 1)) === 0, for n >= 1
RECURSIVE IsPowerOfTwo(_)
IsPowerOfTwo(n) ==
  IF n = 1 THEN TRUE
  ELSE IF n % 2 = 1 THEN FALSE
  ELSE IsPowerOfTwo(n \div 2)

\* while (length > 1 && length is no power of two) push(last leaf)
RECURSIVE PadLoop(_)
PadLoop(leaves) ==
  IF Len(leaves) > 1 /\ ~IsPowerOfTwo(Len(leaves))
  THEN PadLoop(Append(leaves, leaves[Len(leaves)]))
  ELSE leaves

\* no padding at all
PadNone(leaves) == leaves

\* padding that pushes the first leaf
RECURSIVE PadWithFirst(_)
PadWithFirst(leaves) ==
  IF Len(leaves) > 1 /\ ~IsPowerOfTwo(Len(leaves))
  THEN PadWithFirst(Append(leaves, leaves[1]))
  ELSE leaves

Pad(leaves) == PadLoop(leaves)

\* for (i = 0; i < length; i += 2) push(hashPair(leaves[i], leaves[i+1] ?? left))
RECURSIVE NextLevelFrom(_, _)
NextLevelFrom(leaves, i) ==
  IF i >= Len(leaves) THEN <<>>
  ELSE LET left == At(leaves, i)
           right == IF i + 1 < Len(leaves) THEN At(leaves, i + 1) ELSE left
       IN  <<hashPair(left, right)>> \o NextLevelFrom(leaves, i + 2)

NextLevel(leaves) == NextLevelFrom(leaves, 0)

\* the tree loop run as do ... while: one level is always built
RECURSIVE BuildRootAtLeastOnce(_)
BuildRootAtLeastOnce(leaves) ==
  LET nextLevel == NextLevel(leaves)
  IN  IF Len(nextLevel) > 1 THEN BuildRootAtLeastOnce(nextLevel) ELSE nextLevel[1]

\* while (length > 1) leaves = nextLevel; return leaves[0]
RECURSIVE BuildRoot(_)
BuildRoot(leaves) ==
  IF Len(leaves) > 1 THEN BuildRoot(NextLevel(leaves)) ELSE leaves[1]

computeBoundsRoot(actions) ==
  IF Len(actions) = 0 THEN Error("At least one action required")
  ELSE Ok(BuildRoot(Pad(MapLeaf(actions))))

\* a sibling taken always to the right
SiblingIndexRight(idx) == idx + 1

\* idx % 2 === 0 ? idx + 1 : idx - 1
SiblingIndex(idx) == IF idx % 2 = 0 THEN idx + 1 ELSE idx - 1

\* the loop of generateProof: record the sibling, build the next level,
\* halve the index (Math.floor)
RECURSIVE ProofLoop(_, _, _)
ProofLoop(leaves, idx, proof) ==
  IF Len(leaves) > 1
  THEN LET siblingIdx == SiblingIndex(idx)
           pushed == IF siblingIdx < Len(leaves)
                     THEN Append(proof, At(leaves, siblingIdx))
                     ELSE proof
       IN  ProofLoop(NextLevel(leaves), idx \div 2, pushed)
  ELSE proof

\* if (index >= actions.length) throw
IndexOutOfBounds(actions, index) == index >= Len(actions)

generateProof(actions, index) ==
  IF IndexOutOfBounds(actions, index) THEN Error("Index out of bounds")
  ELSE Ok(ProofLoop(Pad(MapLeaf(actions)), index, <<>>))

\* the verifier's fold: each proof entry is paired with the running value by
\* the sort-then-hash rule, from the leaf up
RECURSIVE ProcessProof(_, _)
ProcessProof(proof, computed) ==
  IF proof = <<>> THEN computed
  ELSE ProcessProof(Tail(proof), hashPair(computed, Head(proof)))

\* ------------------------------------------------------------ Merkle calls

Selectors == {0, 1}

ActionBounds ==
  [target : [val : 0..MaxTarget, form : {"checksum"}], selector : Selectors]

ActionLists == SeqsUpTo(ActionBounds, MaxActions)

MerkleCalls ==
  [op : {"computeBoundsRoot"}, actions : ActionLists]
    \cup [op : {"generateProof"}, actions : ActionLists, index : (0 - 2)..(MaxActions + 1)]

ComputeBoundsRoot ==
  /\ call.op = "computeBoundsRoot"
  /\ ret = Pending
  /\ ret' = computeBoundsRoot(call.actions)
  /\ UNCHANGED <<call, now, proc, peer, ledger, policyActions>>

GenerateProof ==
  /\ call.op = "generateProof"
  /\ ret = Pending
  /\ ret' = generateProof(call.actions, call.index)
  /\ UNCHANGED <<call, now, proc, peer, ledger, policyActions>>

InitMerkle ==
  /\ call \in MerkleCalls
  /\ ret = Pending
  /\ now = 0
  /\ proc = Idle
  /\ peer = Idle
  /\ ledger = NoLedger
  /\ policyActions = EmptyMap

NextMerkle == ComputeBoundsRoot \/ GenerateProof

SpecMerkle == InitMerkle /\ [][NextMerkle]_vars

\* ------------------------------------------- CoordinationClient: status

\* enum Status
None == 0
Proposed == 1
Ready == 2
Executed == 3
Cancelled == 4
Expired == 5

Statuses == None..Expired

\* getStatus: the tuple getCoordinationStatus returned, as a record
getStatus(result) ==
  [status |-> result[1], proposer |-> result[2], participants |-> result[3],
   acceptedBy |-> result[4], expiry |-> result[5]]

GetStatus ==
  /\ call.op = "getStatus"
  /\ ret = Pending
  /\ ret' = Ok(getStatus(call.report))
  /\ UNCHANGED <<call, now, proc, peer, ledger, policyActions>>

\* ------------------------------------------ CoordinationClient.waitForReady

\* options?.pollIntervalMs ?? 2000 and options?.timeoutMs ?? 60000
DefaultPollInterval == 2000
DefaultTimeout == 60000

PollInterval(options) ==
  IF options.pollIntervalMs = <<>> THEN DefaultPollInterval ELSE options.pollIntervalMs[1]

Timeout(options) ==
  IF options.timeoutMs = <<>> THEN DefaultTimeout ELSE options.timeoutMs[1]

\* every clock value from here on is past every deadline: the clock is not
\* counted beyond it
ClockCap == MaxTimeout + 1

\* more reads than any timeout leaves room for
ReadCap == MaxTimeout + 1

Min(a, b) == IF a < b THEN a ELSE b

\* the loop condition with the start time in place of the current time
WithinTimeoutStale(clock, startTime, timeout) == startTime - startTime < timeout

\* Date.now() - startTime < timeout
WithinTimeout(clock, startTime, timeout) == clock - startTime < timeout

\* the Ready test widened to every status from Ready on
IsReadyOrLater(status) == status >= 2

\* status.status === 2
IsReady(status) == status = 2

\* a terminal test that takes None for an ended coordination
IsTerminalOrNone(status) == status >= 3 \/ status = 0

\* the terminal test without Executed
IsTerminalAfterExecuted(status) == status > 3

\* status.status >= 3
IsTerminal(status) == status >= 3

TimeoutError == Error("Timeout waiting for coordination to be ready")

\* new Error(`Coordination ended with status: ${status.status}`)
TerminalError(status) ==
  [kind |-> "error", msg |-> "Coordination ended with status", status |-> status]

\* what the i-th status read of the call is answered with; the ledger keeps
\* its last answer
ReportAt(reports, i) == reports[Min(i, Len(reports))]

\* const startTime = Date.now()
WaitStart ==
  /\ call.op = "waitForReady"
  /\ ret = Pending
  /\ proc.pc = "idle"
  /\ proc' = [proc EXCEPT !.pc = "check", !.startTime = now]
  /\ UNCHANGED <<call, ret, now, peer, ledger, policyActions>>

\* while (Date.now() - startTime < timeout), and the throw after the loop
WaitCheck ==
  /\ call.op = "waitForReady"
  /\ ret = Pending
  /\ proc.pc = "check"
  /\ IF WithinTimeout(now, proc.startTime, Timeout(call.options))
     THEN /\ proc' = [proc EXCEPT !.pc = "read"]
          /\ ret' = ret
     ELSE /\ proc' = [proc EXCEPT !.pc = "done"]
          /\ ret' = TimeoutError
  /\ UNCHANGED <<call, now, peer, ledger, policyActions>>

\* const status = await this.getStatus(intentHash), and the two tests on it
WaitRead ==
  /\ call.op = "waitForReady"
  /\ ret = Pending
  /\ proc.pc = "read"
  /\ proc.reads < ReadCap
  /\ LET status == getStatus(ReportAt(call.reports, proc.reads + 1))
     IN  IF IsReady(status.status)
         THEN /\ ret' = Ok(status)
              /\ proc' = [proc EXCEPT !.pc = "done", !.reads = @ + 1,
                                      !.status = <<status.status>>]
         ELSE IF IsTerminal(status.status)
         THEN /\ ret' = TerminalError(status.status)
              /\ proc' = [proc EXCEPT !.pc = "done", !.reads = @ + 1,
                                      !.status = <<status.status>>]
         ELSE /\ ret' = ret
              /\ proc' = [proc EXCEPT !.pc = "sleep", !.reads = @ + 1,
                                      !.status = <<status.status>>]
  /\ UNCHANGED <<call, now, peer, ledger, policyActions>>

\* await new Promise(resolve => setTimeout(resolve, pollInterval)): the timer
\* fires once the interval has passed
WaitSleep ==
  /\ call.op = "waitForReady"
  /\ ret = Pending
  /\ proc.pc = "sleep"
  /\ now' = Min(now + PollInterval(call.options), ClockCap)
  /\ proc' = [proc EXCEPT !.pc = "check", !.sleeps = @ + 1]
  /\ UNCHANGED <<call, ret, peer, ledger, policyActions>>

\* time that passes while the method runs, beyond its sleeps
WaitTick ==
  /\ call.op = "waitForReady"
  /\ ret = Pending
  /\ proc.pc # "idle"
  /\ now < ClockCap
  /\ now' = now + 1
  /\ UNCHANGED <<call, ret, proc, peer, ledger, policyActions>>

\* the caller wants the running waitForReady to stop; waitForReady takes no
\* cancellation argument, so nothing of the method reads this
RequestCancel ==
  /\ call.op = "waitForReady"
  /\ ret = Pending
  /\ proc.pc # "idle"
  /\ proc.cancelledAt = <<>>
  /\ proc' = [proc EXCEPT !.cancelledAt = <<<<proc.reads, proc.sleeps>>>>]
  /\ UNCHANGED <<call, ret, now, peer, ledger, policyActions>>

\* the other fields of a status report
Report(status) == <<status, [val |-> 0, form |-> "checksum"],
                    <<[val |-> 0, form |-> "checksum"]>>, <<>>, MaxNow + 1>>

\* reports that hold the loop (None, Proposed) and then one of any status;
\* what follows the first other status is never read
RECURSIVE StatusScripts(_)
StatusScripts(n) ==
  IF n = 0 THEN {}
  ELSE {<<Report(s)>> : s \in Statuses}
         \cup {<<Report(w)>> \o t : w \in {None, Proposed}, t \in StatusScripts(n - 1)}

WaitOptions ==
  [pollIntervalMs : {<<i>> : i \in 1..MaxInterval},
   timeoutMs : {<<t>> : t \in 0..MaxTimeout}]

WaitCalls ==
  [op : {"waitForReady"}, reports : StatusScripts(MaxPolls), options : WaitOptions]

InitWait ==
  /\ call \in WaitCalls
  /\ ret = Pending
  /\ now \in {0, 1}
  /\ proc = Idle
  /\ peer = Idle
  /\ ledger = NoLedger
  /\ policyActions = EmptyMap

WaitStep == WaitStart \/ WaitCheck \/ WaitRead \/ WaitSleep

NextWait == WaitStart \/ WaitCheck \/ WaitRead \/ WaitSleep \/ WaitTick

SpecWait == InitWait /\ [][NextWait]_vars

\* the event loop runs a continuation that is ready: the status read
\* returns and the timer fires
SpecWaitFair == SpecWait /\ WF_vars(WaitStep)

NextWaitCancel == NextWait \/ RequestCancel

SpecWaitCancel == InitWait /\ [][NextWaitCancel]_vars

\* ------------------------------- CoordinationClient: execute and cancel

\* this.walletClient, absent or present, with or without an account
ChecksumAddresses == [val : 0..MaxAddr, form : {"checksum"}]

Wallets ==
  {[client |-> FALSE, account |-> <<>>], [client |-> TRUE, account |-> <<>>]}
    \cup {[client |-> TRUE, account |-> <<a>>] : a \in ChecksumAddresses}

NoWalletError == Error("Wallet client required for write operations")

\* getAccount: the throw when the wallet has no account
NoAccountError == Error("Wallet client with account required for write operations")

\* new Error(`Coordination not ready. Current status: ${status.status}`)
NotReadyError(status) ==
  [kind |-> "error", msg |-> "Coordination not ready", status |-> status]

\* the test of execute with < in place of !==
NotReadyBelow(status) == status < 2

\* status.status !== 2
NotReady(status) == status # 2

\* walletClient.writeContract({account, functionName, ...})
Transaction(functionName, account) ==
  [functionName |-> functionName, account |-> account]

\* execute up to its await: the wallet checks, getAccount and the status read
ExecuteBegin ==
  /\ call.op = "execute"
  /\ ret = Pending
  /\ proc.pc = "idle"
  /\ IF ~call.wallet.client
     THEN /\ ret' = NoWalletError
          /\ proc' = [proc EXCEPT !.pc = "done"]
     ELSE IF call.wallet.account = <<>>
     THEN /\ ret' = NoAccountError
          /\ proc' = [proc EXCEPT !.pc = "done"]
     ELSE /\ ret' = ret
          /\ proc' = [proc EXCEPT !.pc = "status", !.reads = @ + 1,
                                  !.status = <<getStatus(call.report).status>>]
  /\ UNCHANGED <<call, now, peer, ledger, policyActions>>

\* execute after the status arrived: the Ready test and the transaction
ExecuteSubmit ==
  /\ call.op = "execute"
  /\ ret = Pending
  /\ proc.pc = "status"
  /\ IF NotReady(proc.status[1])
     THEN /\ ret' = NotReadyError(proc.status[1])
          /\ proc' = [proc EXCEPT !.pc = "done"]
     ELSE /\ ret' = Ok([txHash |-> Len(proc.txs) + 1])
          /\ proc' = [proc EXCEPT !.pc = "done",
                        !.txs = Append(@, Transaction("executeCoordination",
                                                      call.wallet.account[1]))]
  /\ UNCHANGED <<call, now, peer, ledger, policyActions>>

\* cancel: the wallet checks, getAccount and the transaction; no status read
Cancel ==
  /\ call.op = "cancel"
  /\ ret = Pending
  /\ proc.pc = "idle"
  /\ IF ~call.wallet.client
     THEN /\ ret' = NoWalletError
          /\ proc' = [proc EXCEPT !.pc = "done"]
     ELSE IF call.wallet.account = <<>>
     THEN /\ ret' = NoAccountError
          /\ proc' = [proc EXCEPT !.pc = "done"]
     ELSE /\ ret' = Ok([txHash |-> Len(proc.txs) + 1])
          /\ proc' = [proc EXCEPT !.pc = "done",
                        !.txs = Append(@, Transaction("cancelCoordination",
                                                      call.wallet.account[1]))]
  /\ UNCHANGED <<call, now, peer, ledger, policyActions>>

\* what the ledger holds for the intent: status, proposer, participants,
\* acceptedBy, expiry
LedgerReports ==
  {<<s, p, <<p>>, <<>>, e>> : s \in Statuses, p \in ChecksumAddresses, e \in 0..(MaxNow + 1)}

CoordinationCalls ==
  [op : {"getStatus"}, report : LedgerReports]
    \cup [op : {"execute", "cancel"}, wallet : Wallets, report : LedgerReports]

InitCoordination ==
  /\ call \in CoordinationCalls
  /\ ret = Pending
  /\ now = 0
  /\ proc = Idle
  /\ peer = Idle
  /\ ledger = NoLedger
  /\ policyActions = EmptyMap

NextCoordination == GetStatus \/ ExecuteBegin \/ ExecuteSubmit \/ Cancel \/ Tick

SpecCoordination == InitCoordination /\ [][NextCoordination]_vars

\* ---------------------------------------------------------- struct hashes

\* encodePacked(['address[]'], [participants]): each address as its number
RECURSIVE EncodePackedAddresses(_)
EncodePackedAddresses(participants) ==
  IF participants = <<>> THEN <<>>
  ELSE <<BigInt(Head(participants))>> \o EncodePackedAddresses(Tail(participants))

\* a participants hash taken over the sorted list
computeParticipantsHashSorted(participants) ==
  <<6>> \o EncodePackedAddresses(SortByUint160(participants))

\* keccak256(encodePacked(['address[]'], [participants])), tag 6
computeParticipantsHash(participants) == <<6>> \o EncodePackedAddresses(participants)

\* keccak256 of the type hash and the seven fields, the participants as their
\* hash (tag 7); the variable-length list hash is placed last in the term
computeIntentStructHash(intent) ==
  LET participantsHash == computeParticipantsHash(intent.participants)
  IN  <<7, intent.expiry, intent.nonce, BigInt(intent.agentId), intent.coordinationValue>>
        \o <<Len(intent.payloadHash)>> \o intent.payloadHash
        \o <<Len(intent.coordinationType)>> \o intent.coordinationType
        \o participantsHash

HashIntents ==
  { [payloadHash |-> <<2>>, expiry |-> 1, nonce |-> 1, agentId |-> a,
     coordinationType |-> <<3, 1>>, coordinationValue |-> 0, participants |-> p] :
      a \in [val : {0}, form : {"checksum"}], p \in ParticipantLists }

HashCalls == [op : {"computeIntentStructHash"}, intent : HashIntents]

ComputeIntentStructHash ==
  /\ call.op = "computeIntentStructHash"
  /\ ret = Pending
  /\ ret' = Ok(computeIntentStructHash(call.intent))
  /\ UNCHANGED <<call, now, proc, peer, ledger, policyActions>>

InitHash ==
  /\ call \in HashCalls
  /\ ret = Pending
  /\ now = 0
  /\ proc = Idle
  /\ peer = Idle
  /\ ledger = NoLedger
  /\ policyActions = EmptyMap

NextHash == ComputeIntentStructHash

SpecHash == InitHash /\ [][NextHash]_vars

\* ------------------------------- CoordinationClient: propose and accept

\* the invocation p ended by a throw or a return
Done(p) == [p EXCEPT !.pc = "done"]

\* walletClient.signTypedData({message}) asked at the clock value given
SignRequest(message, clock) == [message |-> message, requestedAt |-> clock]

\* writeContract({account, functionName: 'proposeCoordination', args: [intent, ...]})
ProposeTransaction(account, intent) ==
  [functionName |-> "proposeCoordination", account |-> account, intent |-> intent]

\* writeContract({account, functionName: 'acceptCoordination', args: [intentHash, attestation]})
AcceptTransaction(account, attestation) ==
  [functionName |-> "acceptCoordination", account |-> account, attestation |-> attestation]

\* what the contract does with a proposal: the nonce MUST be > agentNonces[agentId],
\* and an accepted proposal becomes the agent's nonce
LedgerPropose(l, intent) ==
  IF intent.nonce > l.nonce
  THEN [l EXCEPT !.nonce = intent.nonce, !.proposed = Append(@, intent)]
  ELSE l

\* the nonce read before the wallet is looked at
ProposeReadThenCheck(p, c, l) ==
  IF ~c.wallet.client
  THEN [proc |-> [Done(p) EXCEPT !.reads = @ + 1], ret |-> NoWalletError]
  ELSE IF c.wallet.account = <<>>
  THEN [proc |-> [Done(p) EXCEPT !.reads = @ + 1], ret |-> NoAccountError]
  ELSE [proc |-> [p EXCEPT !.pc = "nonce", !.reads = @ + 1, !.nonce = <<l.nonce>>],
        ret |-> Pending]

\* propose up to its first await: the wallet checks, getAccount, and the
\* nonce read from the ledger l
ProposeRead(p, c, l) ==
  IF ~c.wallet.client THEN [proc |-> Done(p), ret |-> NoWalletError]
  ELSE IF c.wallet.account = <<>> THEN [proc |-> Done(p), ret |-> NoAccountError]
  ELSE [proc |-> [p EXCEPT !.pc = "nonce", !.reads = @ + 1, !.nonce = <<l.nonce>>],
        ret |-> Pending]

\* propose once the nonce arrived: createIntent, validateIntent, the intent
\* hash, and the signature asked of the wallet
ProposeSign(p, c, clock) ==
  LET built == createIntent(c.options, p.nonce[1], clock)
      valid == validateIntent(built.intent, clock)
  IN  IF valid.kind = "error" THEN [proc |-> Done(p), ret |-> valid]
      ELSE [proc |-> [p EXCEPT !.pc = "sign", !.msg = <<built>>,
                               !.sigs = Append(@, SignRequest(built.intent, clock))],
            ret |-> Pending]

\* propose once the signature arrived: the transaction and the return value
ProposeSubmit(p, c) ==
  [proc |-> [Done(p) EXCEPT !.txs = Append(@, ProposeTransaction(c.wallet.account[1],
                                                                 p.msg[1].intent))],
   ret |-> Ok([intentHash |-> computeIntentStructHash(p.msg[1].intent),
               txHash |-> Len(p.txs) + 1,
               intent |-> p.msg[1].intent,
               payload |-> p.msg[1].payload])]

ProposeBegin ==
  /\ call.op = "propose"
  /\ ret = Pending
  /\ proc.pc = "idle"
  /\ proc' = ProposeRead(proc, call, ledger).proc
  /\ ret' = ProposeRead(proc, call, ledger).ret
  /\ UNCHANGED <<call, now, peer, ledger, policyActions>>

ProposeBuild ==
  /\ call.op = "propose"
  /\ ret = Pending
  /\ proc.pc = "nonce"
  /\ proc' = ProposeSign(proc, call, now).proc
  /\ ret' = ProposeSign(proc, call, now).ret
  /\ UNCHANGED <<call, now, peer, ledger, policyActions>>

ProposeSend ==
  /\ call.op = "propose"
  /\ ret = Pending
  /\ proc.pc = "sign"
  /\ proc' = ProposeSubmit(proc, call).proc
  /\ ret' = ProposeSubmit(proc, call).ret
  /\ ledger' = LedgerPropose(ledger, proc.msg[1].intent)
  /\ UNCHANGED <<call, now, peer, policyActions>>

\* createAttestation(options, nonce) at the clock value given
createAttestation(options, nonce, clock) ==
  LET ttl == IF options.ttlSeconds = <<>> THEN DefaultTtl ELSE options.ttlSeconds[1]
  IN  [intentHash |-> options.intentHash,
       participant |-> options.participant,
       nonce |-> IF nonce = <<>> THEN 0 ELSE nonce[1],
       expiry |-> clock + ttl,
       conditionsHash |->
         IF options.conditionsHash = <<>> THEN <<0>> ELSE options.conditionsHash[1]]

\* signAcceptance: {...attestation, signature}
Signed(attestation, signature) ==
  [intentHash |-> attestation.intentHash,
   participant |-> attestation.participant,
   nonce |-> attestation.nonce,
   expiry |-> attestation.expiry,
   conditionsHash |-> attestation.conditionsHash,
   signature |-> <<signature>>]

\* accept up to its first await: the wallet checks, getAccount and the
\* status read
AcceptBegin ==
  /\ call.op = "accept"
  /\ ret = Pending
  /\ proc.pc = "idle"
  /\ IF ~call.wallet.client
     THEN /\ ret' = NoWalletError
          /\ proc' = Done(proc)
     ELSE IF call.wallet.account = <<>>
     THEN /\ ret' = NoAccountError
          /\ proc' = Done(proc)
     ELSE /\ ret' = ret
          /\ proc' = [proc EXCEPT !.pc = "status", !.reads = @ + 1,
                                  !.status = <<getStatus(call.report).status>>]
  /\ UNCHANGED <<call, now, peer, ledger, policyActions>>

\* accept once the status arrived: createAttestation and the signature asked
\* of the wallet
AcceptSign ==
  /\ call.op = "accept"
  /\ ret = Pending
  /\ proc.pc = "status"
  /\ LET unsigned == createAttestation([intentHash |-> call.intentHash,
                                        participant |-> call.wallet.account[1],
                                        conditionsHash |-> call.options.conditionsHash,
                                        ttlSeconds |-> call.options.ttlSeconds],
                                       <<>>, now)
     IN  proc' = [proc EXCEPT !.pc = "sign", !.msg = <<unsigned>>,
                              !.sigs = Append(@, SignRequest(unsigned, now))]
  /\ UNCHANGED <<call, ret, now, peer, ledger, policyActions>>

\* accept once the signature arrived: validateAttestation against the
\* participants of the status read, then the transaction
AcceptSend ==
  /\ call.op = "accept"
  /\ ret = Pending
  /\ proc.pc = "sign"
  /\ LET attestation == Signed(proc.msg[1], "0x1b")
         valid == validateAttestation(attestation, getStatus(call.report).participants, now)
     IN  IF valid.kind = "error"
         THEN /\ ret' = valid
              /\ proc' = Done(proc)
         ELSE /\ ret' = Ok([txHash |-> Len(proc.txs) + 1, attestation |-> attestation])
              /\ proc' = [Done(proc) EXCEPT
                            !.txs = Append(@, AcceptTransaction(call.wallet.account[1],
                                                                attestation))]
  /\ UNCHANGED <<call, now, peer, ledger, policyActions>>

\* options of propose: a checksummed agentId, at most one other participant
ProposeOptions ==
  {o \in CreateIntentOptions :
     /\ o.agentId.form = "checksum"
     /\ o.coordinationValue = <<>>
     /\ Len(o.participants) <= 1}

AcceptOptions == [conditionsHash : {<<>>}, ttlSeconds : TtlChoices]

ClientCalls ==
  [op : {"propose"}, wallet : Wallets, options : ProposeOptions]
    \cup [op : {"accept"}, wallet : Wallets, intentHash : {<<1>>},
          report : LedgerReports, options : AcceptOptions]

InitClient ==
  /\ call \in ClientCalls
  /\ ret = Pending
  /\ now = 0
  /\ proc = Idle
  /\ peer = Idle
  /\ ledger \in {[NoLedger EXCEPT !.nonce = n] : n \in 0..MaxNonce}
  /\ policyActions = EmptyMap

NextClient ==
  \/ ProposeBegin
  \/ ProposeBuild
  \/ ProposeSend
  \/ AcceptBegin
  \/ AcceptSign
  \/ AcceptSend
  \/ Tick

SpecClient == InitClient /\ [][NextClient]_vars

\* ------------------------------------------------------------ BoundedClient

\* Map.set(key, value)
MapSet(map, key, value) ==
  [k \in DOMAIN map \cup {key} |-> IF k = key THEN value ELSE map[k]]

\* Map.delete(key)
MapDelete(map, key) == [k \in DOMAIN map \ {key} |-> map[k]]

\* Map.get(key): the value, or nothing
MapGet(map, key) == IF key \in DOMAIN map THEN <<map[key]>> ELSE <<>>

\* '0x' + '0'.repeat(64) as a policy id; the contract's ids start at 1
ZeroPolicyId == 0

\* walletClient.writeContract without an account parameter on a wallet that
\* has no account: viem throws before anything is sent
AccountNotFoundError == Error("Could not find an Account to execute with this Action")

\* a.target.toLowerCase()
toLowerCase(address) == [address EXCEPT !.form = "lower"]

\* action.callData.slice(0, 10): the first four bytes
Selector(callData) == Head(callData)

\* the comparison of findIndex without toLowerCase
MatchesExactly(a, action) ==
  a.target = action.target /\ a.selector = Selector(action.callData)

\* a.target.toLowerCase() === action.target.toLowerCase() &&
\* a.selector.toLowerCase() === selector.toLowerCase()
Matches(a, action) ==
  toLowerCase(a.target) = toLowerCase(action.target) /\ a.selector = Selector(action.callData)

\* actions.findIndex(...), counted from 0; -1 when nothing matches
RECURSIVE FindIndexFrom(_, _, _)
FindIndexFrom(actions, action, i) ==
  IF i >= Len(actions) THEN 0 - 1
  ELSE IF Matches(actions[i + 1], action) THEN i
  ELSE FindIndexFrom(actions, action, i + 1)

findIndex(actions, action) == FindIndexFrom(actions, action, 0)

\* a proof regenerated from the cache even when one was supplied
MerkleProofFromCache(cache, policyId, action, proof) ==
  LET actions == MapGet(cache, policyId)
  IN  IF actions # <<>> /\ findIndex(actions[1], action) >= 0
      THEN generateProof(actions[1], findIndex(actions[1], action)).val
      ELSE IF proof # <<>> THEN proof[1] ELSE <<>>

\* the proof execute submits: the one supplied (an empty array is truthy),
\* else the one generated from the cached list, else []
MerkleProof(cache, policyId, action, proof) ==
  IF proof # <<>> THEN proof[1]
  ELSE LET actions == MapGet(cache, policyId)
       IN  IF actions # <<>> /\ findIndex(actions[1], action) >= 0
           THEN generateProof(actions[1], findIndex(actions[1], action)).val
           ELSE <<>>

\* writeContract({functionName, args})
BoundedTransaction(functionName, args) == [functionName |-> functionName, args |-> args]

\* the contract registering a policy: the next id, the root, active
LedgerRegister(l, boundsRoot) ==
  [l EXCEPT !.policies = Append(@, [boundsRoot |-> boundsRoot, active |-> TRUE])]

\* the contract revoking a policy it holds
LedgerRevoke(l, policyId) ==
  IF policyId \in 1..Len(l.policies)
  THEN [l EXCEPT !.policies[policyId].active = FALSE]
  ELSE l

\* the calls made on a BoundedClient; "new" is its construction
BoundedOps == {"new", "registerPolicy", "cacheActions", "revokePolicy", "boundedExecute"}

\* a call that threw before it did anything
Threw(error, next) ==
  /\ ret' = error
  /\ call' = next
  /\ proc' = Done(Idle)
  /\ UNCHANGED <<now, peer, ledger, policyActions>>

\* the call after call on the same client
NextCall(op, args) == [op |-> op, seq |-> call.seq + 1, wallet |-> call.wallet, args |-> args]

\* registerPolicy(options), the receipt carrying the PolicyRegistered log of
\* a new policy (logs) or no log at all
RegisterPolicyCall(options, logs) ==
  LET next == NextCall("registerPolicy", [options |-> options, logs |-> logs])
      boundsRoot == computeBoundsRoot(options.actions)
      policyId == IF logs THEN Len(ledger.policies) + 1 ELSE ZeroPolicyId
  IN  /\ call.op \in BoundedOps
      /\ call.seq < MaxCalls
      /\ logs => Len(ledger.policies) < MaxPolicies
      /\ IF ~call.wallet.client THEN Threw(NoWalletError, next)
         ELSE IF boundsRoot.kind = "error" THEN Threw(boundsRoot, next)
         ELSE IF call.wallet.account = <<>> THEN Threw(AccountNotFoundError, next)
         ELSE /\ call' = next
              /\ proc' = [Done(Idle) EXCEPT
                            !.reads = 1,
                            !.txs = <<BoundedTransaction("registerPolicy",
                                                         <<options.agent, boundsRoot.val>>)>>]
              /\ ledger' = IF logs THEN LedgerRegister(ledger, boundsRoot.val) ELSE ledger
              /\ policyActions' = MapSet(policyActions, policyId, options.actions)
              /\ ret' = Ok([policyId |-> policyId, txHash |-> 1,
                            boundsRoot |-> boundsRoot.val])
              /\ UNCHANGED <<now, peer>>

\* cacheActions(policyId, actions)
CacheActionsCall(policyId, actions) ==
  /\ call.op \in BoundedOps
  /\ call.seq < MaxCalls
  /\ call' = NextCall("cacheActions", [policyId |-> policyId, actions |-> actions])
  /\ policyActions' = MapSet(policyActions, policyId, actions)
  /\ proc' = Done(Idle)
  /\ ret' = Ok(TRUE)
  /\ UNCHANGED <<now, peer, ledger>>

\* revokePolicy(policyId)
RevokePolicyCall(policyId) ==
  LET next == NextCall("revokePolicy", [policyId |-> policyId])
  IN  /\ call.op \in BoundedOps
      /\ call.seq < MaxCalls
      /\ IF ~call.wallet.client THEN Threw(NoWalletError, next)
         ELSE IF call.wallet.account = <<>> THEN Threw(AccountNotFoundError, next)
         ELSE /\ call' = next
              /\ proc' = [Done(Idle) EXCEPT
                            !.txs = <<BoundedTransaction("revokePolicy", <<policyId>>)>>]
              /\ ledger' = LedgerRevoke(ledger, policyId)
              /\ policyActions' = MapDelete(policyActions, policyId)
              /\ ret' = Ok([txHash |-> 1])
              /\ UNCHANGED <<now, peer>>

\* execute(policyId, action, proof), the receipt reporting success or not
BoundedExecuteCall(policyId, action, proof, success) ==
  LET next == NextCall("boundedExecute", [policyId |-> policyId, action |-> action,
                                   proof |-> proof])
      value == IF action.value = <<>> THEN 0 ELSE action.value[1]
      merkleProof == MerkleProof(policyActions, policyId, action, proof)
  IN  /\ call.op \in BoundedOps
      /\ call.seq < MaxCalls
      /\ IF ~call.wallet.client THEN Threw(NoWalletError, next)
         ELSE IF call.wallet.account = <<>> THEN Threw(AccountNotFoundError, next)
         ELSE /\ call' = next
              /\ proc' = [Done(Idle) EXCEPT
                            !.reads = 1,
                            !.txs = <<BoundedTransaction("executeBounded",
                                        <<policyId, action.target, action.callData,
                                          value, merkleProof>>)>>]
              /\ ret' = Ok([txHash |-> 1, success |-> success])
              /\ UNCHANGED <<now, peer, ledger, policyActions>>

\* ------------------------------------------------------ BoundedClient calls

ActionA == [target |-> [val |-> 0, form |-> "checksum"], selector |-> 0]

ActionB == [target |-> [val |-> 1, form |-> "checksum"], selector |-> 1]

BoundedLists == {<<>>, <<ActionA>>, <<ActionA, ActionB>>, <<ActionB, ActionA>>}

PolicyIds == ZeroPolicyId..MaxPolicies

\* options of registerPolicy; the spending limit, the call limit and the
\* duration go to the contract untouched
CreatePolicyOptions == [agent : {[val |-> 0, form |-> "checksum"]}, actions : BoundedLists]

\* what execute is asked to call: the target spelled in lower case
ExecuteActions ==
  { [target |-> [val |-> v, form |-> "lower"], callData |-> <<s, 9>>, value |-> <<>>] :
      v \in {0, 1}, s \in {0, 1} } \ {[target |-> [val |-> 1, form |-> "lower"],
                                      callData |-> <<0, 9>>, value |-> <<>>]}

\* the proof argument: absent, the empty array, or one hash
Proofs == {<<>>, <<<<>>>>, <<<<computeActionLeaf(ActionB)>>>>}

RegisterPolicy ==
  \E options \in CreatePolicyOptions, logs \in BOOLEAN : RegisterPolicyCall(options, logs)

CacheActions ==
  \E policyId \in PolicyIds, actions \in BoundedLists : CacheActionsCall(policyId, actions)

RevokePolicy == \E policyId \in PolicyIds : RevokePolicyCall(policyId)

BoundedExecute ==
  \E policyId \in PolicyIds, action \in ExecuteActions, proof \in Proofs :
    \E success \in BOOLEAN : BoundedExecuteCall(policyId, action, proof, success)

InitBounded ==
  /\ call \in [op : {"new"}, seq : {0}, wallet : Wallets, args : {<<>>}]
  /\ ret = Pending
  /\ now = 0
  /\ proc = Idle
  /\ peer = Idle
  /\ ledger = NoLedger
  /\ policyActions = EmptyMap

NextBounded == RegisterPolicy \/ CacheActions \/ RevokePolicy \/ BoundedExecute

SpecBounded == InitBounded /\ [][NextBounded]_vars

\* ------------------------------------- two propose calls on one client

\* the second invocation up to its first await
PeerProposeBegin ==
  /\ call.op = "propose"
  /\ peer.pc = "idle"
  /\ peer' = ProposeRead(peer, call, ledger).proc
  /\ UNCHANGED <<call, ret, now, proc, ledger, policyActions>>

\* the second invocation once its nonce arrived
PeerProposeBuild ==
  /\ call.op = "propose"
  /\ peer.pc = "nonce"
  /\ peer' = ProposeSign(peer, call, now).proc
  /\ UNCHANGED <<call, ret, now, proc, ledger, policyActions>>

\* the second invocation once its signature arrived
PeerProposeSend ==
  /\ call.op = "propose"
  /\ peer.pc = "sign"
  /\ peer' = ProposeSubmit(peer, call).proc
  /\ ledger' = LedgerPropose(ledger, peer.msg[1].intent)
  /\ UNCHANGED <<call, ret, now, proc, policyActions>>

InitProposeTwice ==
  /\ call \in [op : {"propose"}, wallet : Wallets, options : ProposeOptions]
  /\ ret = Pending
  /\ now = 0
  /\ proc = Idle
  /\ peer = Idle
  /\ ledger \in {[NoLedger EXCEPT !.nonce = n] : n \in 0..MaxNonce}
  /\ policyActions = EmptyMap

NextProposeTwice ==
  \/ ProposeBegin
  \/ ProposeBuild
  \/ ProposeSend
  \/ PeerProposeBegin
  \/ PeerProposeBuild
  \/ PeerProposeSend

SpecProposeTwice == InitProposeTwice /\ [][NextProposeTwice]_vars

\* --------------------------------------- every write operation of a client

InitWrites ==
  /\ call \in ClientCalls
              \cup [op : {"execute", "cancel"}, wallet : Wallets, report : LedgerReports]
              \cup [op : {"new"}, seq : {0}, wallet : Wallets, args : {<<>>}]
  /\ ret = Pending
  /\ now = 0
  /\ proc = Idle
  /\ peer = Idle
  /\ ledger = NoLedger
  /\ policyActions = EmptyMap

NextWrites ==
  \/ ProposeBegin
  \/ ProposeBuild
  \/ ProposeSend
  \/ AcceptBegin
  \/ AcceptSign
  \/ AcceptSend
  \/ ExecuteBegin
  \/ ExecuteSubmit
  \/ Cancel
  \/ RegisterPolicy
  \/ CacheActions
  \/ RevokePolicy
  \/ BoundedExecute
  \/ Tick

SpecWrites == InitWrites /\ [][NextWrites]_vars

\* ------------------------------------------------------- every utility call

Init ==
  /\ call \in ParticipantCalls \cup IntentCalls \cup AttestationCalls \cup MerkleCalls
  /\ ret = Pending
  /\ now = 0
  /\ proc = Idle
  /\ peer = Idle
  /\ ledger = NoLedger
  /\ policyActions = EmptyMap

Next ==
  \/ CanonicalizeParticipants
  \/ IsCanonical
  \/ IsParticipant
  \/ CreateIntent
  \/ ValidateIntent
  \/ ValidateAttestation
  \/ ComputeBoundsRoot
  \/ GenerateProof
  \/ Tick

Spec == Init /\ [][Next]_vars

\* ------------------------------------------------------------------ claims

Returned(op) == call.op = op /\ ret # Pending

\* strict ascent by value, stated over every pair of positions
StrictlyAscending(s) == \A i, j \in 1..Len(s) : i < j => s[i].val < s[j].val

NoDuplicates(s) == \A i, j \in 1..Len(s) : i # j => s[i] # s[j]

\* membership by 160-bit value
HasValue(s, a) == \E i \in 1..Len(s) : s[i].val = a.val

Elements(s) == {s[i] : i \in 1..Len(s)}

ValidIndex(actions, index) == index >= 0 /\ index < Len(actions)

\* C1: for a non-empty action list and a valid index, folding the proof of
\* generateProof against the leaf of actions[index] by the sort-then-hash
\* pairing gives exactly computeBoundsRoot(actions).
C1_ProofFoldsToRoot ==
  (Returned("generateProof") /\ ValidIndex(call.actions, call.index)) =>
    /\ ret.kind = "ok"
    /\ computeBoundsRoot(call.actions).kind = "ok"
    /\ ProcessProof(ret.val, computeActionLeaf(call.actions[call.index + 1]))
         = computeBoundsRoot(call.actions).val

\* three distinct actions (padded to four leaves), the proof of index 1 folded
\* to the root
C1_Witness ==
  /\ Returned("generateProof")
  /\ Len(call.actions) = 3
  /\ NoDuplicates(call.actions)
  /\ call.index = 1
  /\ ret.kind = "ok"
  /\ Len(ret.val) = 2
  /\ ProcessProof(ret.val, computeActionLeaf(call.actions[2]))
       = computeBoundsRoot(call.actions).val

\* C2: generateProof raises an error for every index outside
\* 0 <= index < actions.length, negative indices and the empty list included.
C2_OutOfRangeRaises ==
  (Returned("generateProof") /\ ~ValidIndex(call.actions, call.index)) =>
    ret.kind = "error"

\* C3: the output of canonicalizeParticipants is strictly ascending by value
\* (isCanonical is true on it), has no duplicates and holds exactly the
\* normalized addresses of the input.
C3_CanonicalOutput ==
  Returned("canonicalizeParticipants") =>
    /\ StrictlyAscending(ret.val)
    /\ isCanonical(ret.val)
    /\ NoDuplicates(ret.val)
    /\ Elements(ret.val) = {getAddress(a) : a \in Elements(call.participants)}

\* an unsorted input that spells one value in two ways
C3_Witness ==
  /\ Returned("canonicalizeParticipants")
  /\ Len(call.participants) = 3
  /\ ~isCanonical(call.participants)
  /\ \E i, j \in 1..3 : /\ call.participants[i].val = call.participants[j].val
                        /\ call.participants[i].form # call.participants[j].form
  /\ Len(ret.val) = 2
  /\ StrictlyAscending(ret.val)

\* C4: canonicalizeParticipants is idempotent: applied to its own output it
\* returns that output, element by element.
C4_Idempotent ==
  Returned("canonicalizeParticipants") =>
    canonicalizeParticipants(ret.val) = ret.val

\* an input the first application changed (reordered and deduplicated)
C4_Witness ==
  /\ Returned("canonicalizeParticipants")
  /\ Len(call.participants) = 3
  /\ call.participants[1] = call.participants[3]
  /\ call.participants[1] # call.participants[2]
  /\ Len(ret.val) = 2
  /\ canonicalizeParticipants(ret.val) = ret.val

\* C5: isCanonical is true exactly when every consecutive pair is strictly
\* ascending by value: true on the empty list and on singletons, false on
\* [b, a] with b > a and false when two consecutive elements are equal.
C5_IsCanonicalStrict ==
  Returned("isCanonical") =>
    LET p == call.participants
    IN  /\ ret.val = (\A i \in 2..Len(p) : p[i - 1].val < p[i].val)
        /\ Len(p) <= 1 => ret.val = TRUE
        /\ (Len(p) = 2 /\ p[1].val > p[2].val) => ret.val = FALSE
        /\ (\E i \in 2..Len(p) : p[i - 1].val = p[i].val) => ret.val = FALSE

\* [a, a] is rejected
C5_Witness ==
  /\ Returned("isCanonical")
  /\ Len(call.participants) = 2
  /\ call.participants[1].val = call.participants[2].val
  /\ ret.val = FALSE

\* C6: the participants of the intent createIntent returns are strictly
\* ascending, duplicate-free, non-empty and contain agentId, which is added
\* when the caller's list lacks it.
C6_IntentParticipantsCanonical ==
  Returned("createIntent") =>
    LET p == ret.val.intent.participants
    IN  /\ StrictlyAscending(p)
        /\ NoDuplicates(p)
        /\ Len(p) >= 1
        /\ HasValue(p, call.options.agentId)
        /\ ret.val.intent.agentId = call.options.agentId

\* participants [0xBB.., 0xAA..] with agentId 0xAA.. give [0xAA.., 0xBB..]
C6_Witness ==
  /\ Returned("createIntent")
  /\ call.options.participants
       = <<[val |-> 2, form |-> "checksum"], [val |-> 1, form |-> "checksum"]>>
  /\ call.options.agentId = [val |-> 1, form |-> "checksum"]
  /\ ret.val.intent.participants
       = <<[val |-> 1, form |-> "checksum"], [val |-> 2, form |-> "checksum"]>>

\* C7: createIntent sets intent.nonce to the nonce argument plus one, whatever
\* the options.
C7_NextNonce ==
  Returned("createIntent") => ret.val.intent.nonce = call.nonce + 1

C7_Witness ==
  /\ Returned("createIntent")
  /\ call.nonce = 1
  /\ ret.val.intent.nonce = 2

\* C8: validateIntent returns ok exactly when expiry > now, participants is
\* strictly ascending and non-empty, and agentId is in participants; an
\* expired intent and an intent without its agentId are rejected.
C8_ValidateIntentOk ==
  Returned("validateIntent") =>
    LET i == call.intent
    IN  /\ (ret.kind = "ok") =
             (/\ i.expiry > now
              /\ StrictlyAscending(i.participants)
              /\ Len(i.participants) >= 1
              /\ HasValue(i.participants, i.agentId))
        /\ i.expiry <= now => ret.kind = "error"
        /\ ~HasValue(i.participants, i.agentId) => ret.kind = "error"

\* an otherwise valid intent whose expiry is the current second is rejected
C8_Witness ==
  /\ Returned("validateIntent")
  /\ now > 0
  /\ call.intent.expiry = now
  /\ StrictlyAscending(call.intent.participants)
  /\ HasValue(call.intent.participants, call.intent.agentId)
  /\ ret = Error("Intent already expired")

\* C9: validateIntent on an unexpired intent with an empty participants list
\* fails with the EmptyParticipants error, 'At least one participant
\* required'.
C9_EmptyParticipantsError ==
  (/\ Returned("validateIntent")
   /\ call.intent.expiry > now
   /\ call.intent.participants = <<>>) =>
    ret = Error("At least one participant required")

\* C10: validateAttestation returns ok exactly when the attestation is
\* unexpired, its participant is one of the required participants and its
\* signature is present and not '0x'; otherwise it raises the first failing
\* check in the order Expired, NotAParticipant, MissingSignature.
C10_ValidateAttestationOrder ==
  Returned("validateAttestation") =>
    LET a == call.attestation
        expired == a.expiry <= now
        stranger == ~HasValue(call.participants, a.participant)
        unsigned == a.signature \in {<<>>, <<"">>, <<"0x">>}
    IN  /\ (ret.kind = "ok") = (~expired /\ ~stranger /\ ~unsigned)
        /\ expired => ret = Error("Attestation already expired")
        /\ (~expired /\ stranger) => ret = Error("Participant not in required list")
        /\ (~expired /\ ~stranger /\ unsigned) => ret = Error("Missing signature")

\* all three checks fail and the expiry is the one reported
C10_Witness ==
  /\ Returned("validateAttestation")
  /\ call.attestation.expiry <= now
  /\ ~HasValue(call.participants, call.attestation.participant)
  /\ call.attestation.signature = <<"0x">>
  /\ ret = Error("Attestation already expired")

\* the status the i-th read of the running waitForReady was answered with
StatusAt(i) == ReportAt(call.reports, i)[1]

Waiting(status) == status \in {None, Proposed}

\* C11: waitForReady returns the status record of the first read that
\* observes Ready, one read per poll: after k-1 holding reports and then
\* Ready it returns on the k-th read; a timeout means no read saw Ready.
C11_ReturnsFirstReady ==
  call.op = "waitForReady" =>
    /\ proc.reads - proc.sleeps \in {0, 1}
    /\ ret.kind = "ok" =>
         /\ proc.reads >= 1
         /\ StatusAt(proc.reads) = Ready
         /\ ret.val.status = Ready
         /\ \A i \in 1..(proc.reads - 1) : Waiting(StatusAt(i))
         /\ proc.sleeps = proc.reads - 1
    /\ ret = TimeoutError => \A i \in 1..proc.reads : Waiting(StatusAt(i))

\* [Proposed, Proposed, Ready] returns on the third read
C11_Witness ==
  /\ call.op = "waitForReady"
  /\ Len(call.reports) = 3
  /\ StatusAt(1) = Proposed /\ StatusAt(2) = Proposed /\ StatusAt(3) = Ready
  /\ ret.kind = "ok"
  /\ ret.val.status = Ready
  /\ proc.reads = 3

\* C12: a read that observes Executed, Cancelled or Expired raises the
\* terminal-not-Ready error at that read, not the Timeout error, and no
\* status read or sleep follows.
C12_TerminalRaisesAtOnce ==
  call.op = "waitForReady" =>
    /\ (proc.reads >= 1 /\ StatusAt(proc.reads) \in {Executed, Cancelled, Expired}) =>
         /\ ret = TerminalError(StatusAt(proc.reads))
         /\ ret # TimeoutError
         /\ proc.pc = "done"
         /\ proc.sleeps = proc.reads - 1
         /\ \A i \in 1..(proc.reads - 1) : Waiting(StatusAt(i))
    /\ ret # Pending => ~ENABLED (WaitRead \/ WaitSleep)

\* [Proposed, Cancelled] raises on the second read
C12_Witness ==
  /\ call.op = "waitForReady"
  /\ Len(call.reports) = 2
  /\ StatusAt(1) = Proposed /\ StatusAt(2) = Cancelled
  /\ ret = TerminalError(Cancelled)
  /\ proc.reads = 2
  /\ proc.sleeps = 1

NeverReadyNorTerminal == \A i \in 1..Len(call.reports) : Waiting(call.reports[i][1])

\* C13: waitForReady terminates, and when the ledger never reports Ready or a
\* terminal status it ends with the Timeout error.
C13_EndsWithTimeout ==
  <>(/\ ret # Pending
     /\ NeverReadyNorTerminal => ret = TimeoutError)

\* a loop that polled twice and then timed out
C13_Witness ==
  /\ call.op = "waitForReady"
  /\ NeverReadyNorTerminal
  /\ proc.reads >= 2
  /\ ret = TimeoutError

\* C14: once the caller has requested cancellation the loop performs no
\* further status read and no further sleep.
C14_CancelStopsLoop ==
  (call.op = "waitForReady" /\ proc.cancelledAt # <<>>) =>
    <<proc.reads, proc.sleeps>> = proc.cancelledAt[1]

\* C15: when the ledger reports Proposed or Ready for an intent whose
\* recorded expiry has passed, the status getStatus reports is Expired.
C15_ExpiredReported ==
  (/\ Returned("getStatus")
   /\ call.report[1] \in {Proposed, Ready}
   /\ call.report[5] < now) =>
    ret.val.status = Expired

\* C16: execute submits an executeCoordination transaction only if the status
\* it read just before is Ready; for every other status it raises an error
\* and submits nothing.
C16_ExecuteOnlyWhenReady ==
  call.op = "execute" =>
    /\ Len(proc.txs) <= 1
    /\ \A i \in 1..Len(proc.txs) :
         /\ proc.txs[i].functionName = "executeCoordination"
         /\ proc.status = <<Ready>>
         /\ call.report[1] = Ready
    /\ (ret # Pending /\ call.report[1] # Ready) =>
         /\ ret.kind = "error"
         /\ proc.txs = <<>>
    /\ ret.kind = "ok" => Len(proc.txs) = 1

\* a Ready intent executed: one status read, one transaction
C16_Witness ==
  /\ call.op = "execute"
  /\ call.report[1] = Ready
  /\ proc.reads = 1
  /\ ret.kind = "ok"
  /\ Len(proc.txs) = 1
  /\ proc.txs[1].functionName = "executeCoordination"

\* C17: cancel submits a cancelCoordination transaction only for an intent
\* whose status is Proposed or Ready, and before the intent's expiry only
\* when the requester is the proposer.
C17_CancelOnlyWhenPermitted ==
  (call.op = "cancel" /\ proc.txs # <<>>) =>
    /\ call.report[1] \in {Proposed, Ready}
    /\ now < call.report[5] => call.wallet.account[1].val = call.report[2].val

\* C18: computeBoundsRoot of the empty list raises an error; of a single
\* action it returns that action's leaf unchanged; generateProof([x], 0)
\* returns the empty proof.
C18_EmptyAndSingle ==
  /\ (Returned("computeBoundsRoot") /\ Len(call.actions) = 0) =>
       ret = Error("At least one action required")
  /\ (Returned("computeBoundsRoot") /\ Len(call.actions) = 1) =>
       ret = Ok(computeActionLeaf(call.actions[1]))
  /\ (Returned("generateProof") /\ Len(call.actions) = 1 /\ call.index = 0) =>
       ret = Ok(<<>>)

\* the root of a single action, equal to its leaf
C18_Witness ==
  /\ Returned("computeBoundsRoot")
  /\ Len(call.actions) = 1
  /\ ret.kind = "ok"
  /\ ret.val = computeActionLeaf(call.actions[1])

\* the least k with 2^k >= n, for n >= 1
RECURSIVE Log2Ceil(_)
Log2Ceil(n) == IF n <= 1 THEN 0 ELSE 1 + Log2Ceil((n + 1) \div 2)

\* the tree level of a digest: 0 for a leaf, one more for each pairing
RECURSIVE LevelOf(_)
LevelOf(hash) ==
  IF Head(hash) # 1 THEN 0 ELSE 1 + LevelOf(SubSeq(hash, 2, (Len(hash) + 1) \div 2))

\* C19: for a non-empty list of n actions and a valid index the proof has
\* log2(P) entries, P the least power of two >= n, and its k-th entry is a
\* digest of tree level k - 1: the entries run from the leaf level up.
C19_ProofLength ==
  (Returned("generateProof") /\ ValidIndex(call.actions, call.index)) =>
    /\ ret.kind = "ok"
    /\ Len(ret.val) = Log2Ceil(Len(call.actions))
    /\ \A k \in 1..Len(ret.val) : LevelOf(ret.val[k]) = k - 1

\* three actions, index 1: a leaf, then a pair
C19_Witness ==
  /\ Returned("generateProof")
  /\ Len(call.actions) = 3
  /\ call.index = 1
  /\ ret.kind = "ok"
  /\ Len(ret.val) = 2
  /\ LevelOf(ret.val[1]) = 0
  /\ LevelOf(ret.val[2]) = 1

\* the digests a proof entry is replaced by: every leaf and every pair of leaves
AllLeaves == {computeActionLeaf(a) : a \in ActionBounds}

OtherHashes == AllLeaves \cup {hashPair(a, b) : a \in AllLeaves, b \in AllLeaves}

Replaced(proof, k, hash) == [proof EXCEPT ![k] = hash]

\* C20: a proof of generateProof(actions, i) with any one entry replaced by
\* a different digest no longer folds, from the leaf of actions[i], to
\* computeBoundsRoot(actions).
C20_ReplacedEntryFails ==
  (Returned("generateProof") /\ ValidIndex(call.actions, call.index)) =>
    \A k \in 1..Len(ret.val) :
      \A hash \in (OtherHashes \cup Elements(ret.val)) \ {ret.val[k]} :
        ProcessProof(Replaced(ret.val, k, hash),
                     computeActionLeaf(call.actions[call.index + 1]))
          # computeBoundsRoot(call.actions).val

\* three distinct actions, index 1: the proof with its two entries exchanged
\* does not fold to the root
C20_Witness ==
  /\ Returned("generateProof")
  /\ Len(call.actions) = 3
  /\ NoDuplicates(call.actions)
  /\ call.index = 1
  /\ Len(ret.val) = 2
  /\ ret.val[1] # ret.val[2]
  /\ ProcessProof(Replaced(ret.val, 1, ret.val[2]),
                  computeActionLeaf(call.actions[2]))
       # computeBoundsRoot(call.actions).val

\* the lists that hold the entries of s in another order
Reorderings(s) ==
  {[i \in 1..Len(s) |-> s[f[i]]] : f \in Permutations(1..Len(s))}

Canonicalized(intent) ==
  [intent EXCEPT !.participants = canonicalizeParticipants(@)]

\* C21: for an intent and the same intent with its participants permuted,
\* the struct hashes are equal when both lists are canonicalized first, and
\* differ when they are hashed as given and the orders differ.
C21_PermutationHash ==
  Returned("computeIntentStructHash") =>
    \A q \in Reorderings(call.intent.participants) :
      LET other == [call.intent EXCEPT !.participants = q]
      IN  /\ computeIntentStructHash(Canonicalized(other))
               = computeIntentStructHash(Canonicalized(call.intent))
          /\ EncodePackedAddresses(q) # EncodePackedAddresses(call.intent.participants) =>
               computeIntentStructHash(other) # ret.val

\* three distinct participants given in descending order: the hash as given
\* differs from the hash of the canonical list
C21_Witness ==
  /\ Returned("computeIntentStructHash")
  /\ Len(call.intent.participants) = 3
  /\ BigInt(call.intent.participants[1]) > BigInt(call.intent.participants[2])
  /\ BigInt(call.intent.participants[2]) > BigInt(call.intent.participants[3])
  /\ ret.val # computeIntentStructHash(Canonicalized(call.intent))

\* C22: propose and accept sign only a message that passes validation at
\* the moment the signature is asked for (the intent passes validateIntent;
\* the attestation is unexpired and its signer is among the intent's
\* participants), and submit a transaction only for such a message.
C22_ValidatedBeforeSigned ==
  /\ call.op = "propose" =>
       /\ \A i \in 1..Len(proc.sigs) :
            validateIntent(proc.sigs[i].message, proc.sigs[i].requestedAt).kind = "ok"
       /\ proc.txs # <<>> => proc.sigs # <<>>
  /\ call.op = "accept" =>
       /\ \A i \in 1..Len(proc.sigs) :
            /\ proc.sigs[i].message.expiry > proc.sigs[i].requestedAt
            /\ isParticipant(proc.sigs[i].message.participant,
                             getStatus(call.report).participants)
       /\ proc.txs # <<>> => proc.sigs # <<>>

\* a non-empty action list extended by copies of its last action up to the
\* next power of two
RECURSIVE ExtendedWithLast(_)
ExtendedWithLast(actions) ==
  IF IsPowerOfTwo(Len(actions)) THEN actions
  ELSE ExtendedWithLast(Append(actions, actions[Len(actions)]))

NeedsPadding(actions) == Len(actions) >= 1 /\ ~IsPowerOfTwo(Len(actions))

\* C23: for a list whose length is not a power of two, computeBoundsRoot
\* returns the root of the list extended by copies of its last action up to
\* the next power of two, and generateProof returns the proof it returns for
\* that extended list: both describe the same, padded tree.
C23_PaddingByDuplication ==
  /\ (Returned("computeBoundsRoot") /\ NeedsPadding(call.actions)) =>
       ret = computeBoundsRoot(ExtendedWithLast(call.actions))
  /\ (Returned("generateProof") /\ NeedsPadding(call.actions)
        /\ ValidIndex(call.actions, call.index)) =>
       /\ ret = generateProof(ExtendedWithLast(call.actions), call.index)
       /\ ProcessProof(ret.val, computeActionLeaf(call.actions[call.index + 1]))
            = computeBoundsRoot(ExtendedWithLast(call.actions)).val

\* three distinct actions: the root is the root of the four-action list
\* ending in two copies of the third
C23_Witness ==
  /\ Returned("computeBoundsRoot")
  /\ Len(call.actions) = 3
  /\ NoDuplicates(call.actions)
  /\ ret.kind = "ok"
  /\ ret = computeBoundsRoot(call.actions \o <<call.actions[3]>>)

\* the proof argument of the executeBounded transaction the call submitted
SubmittedProof == proc.txs[1].args[5]

\* C24: execute called with a proof submits that proof unchanged, whatever
\* the policy action cache holds for the policy.
C24_SuppliedProofSubmitted ==
  (Returned("boundedExecute") /\ call.args.proof # <<>> /\ ret.kind = "ok") =>
    /\ Len(proc.txs) = 1
    /\ proc.txs[1].functionName = "executeBounded"
    /\ SubmittedProof = call.args.proof[1]

\* a proof supplied for an action the cache could have generated another
\* proof for
C24_Witness ==
  /\ Returned("boundedExecute")
  /\ call.args.proof # <<>>
  /\ ret.kind = "ok"
  /\ call.args.policyId \in DOMAIN policyActions
  /\ findIndex(policyActions[call.args.policyId], call.args.action) >= 0
  /\ generateProof(policyActions[call.args.policyId],
                   findIndex(policyActions[call.args.policyId], call.args.action)).val
       # call.args.proof[1]
  /\ SubmittedProof = call.args.proof[1]

\* the policy the contract holds under policyId, if it holds one
Registered(policyId) ==
  IF policyId \in 1..Len(ledger.policies) THEN <<ledger.policies[policyId]>> ELSE <<>>

\* C27: every cache entry holds the action list whose bounds root was
\* registered under its policyId.
C27_CacheHoldsRegisteredList ==
  \A policyId \in DOMAIN policyActions :
    /\ Registered(policyId) # <<>>
    /\ computeBoundsRoot(policyActions[policyId])
         = Ok(Registered(policyId)[1].boundsRoot)

\* the least index (from 0) of an entry of the list with the target and the
\* selector of the action, letter case set aside; -1 when there is none
FirstMatch(actions, action) ==
  LET found == {i \in 1..Len(actions) :
                  /\ BigInt(actions[i].target) = BigInt(action.target)
                  /\ actions[i].selector = action.callData[1]}
  IN  IF found = {} THEN 0 - 1
      ELSE (CHOOSE i \in found : \A j \in found : i <= j) - 1

\* C28: execute called without a proof by a client with a wallet and an
\* account submits the executeBounded transaction and raises no error; the
\* proof is generateProof(actions, first match) when the cached list of the
\* policy has a matching entry, and empty when there is no cache entry or
\* no match.
C28_ProofFromCache ==
  (/\ Returned("boundedExecute")
   /\ call.args.proof = <<>>
   /\ call.wallet.client
   /\ call.wallet.account # <<>>) =>
    /\ ret.kind = "ok"
    /\ Len(proc.txs) = 1
    /\ proc.txs[1].functionName = "executeBounded"
    /\ LET policyId == call.args.policyId
           matched == /\ policyId \in DOMAIN policyActions
                      /\ FirstMatch(policyActions[policyId], call.args.action) >= 0
       IN  SubmittedProof =
             IF matched
             THEN generateProof(policyActions[policyId],
                                FirstMatch(policyActions[policyId], call.args.action)).val
             ELSE <<>>

\* a two-action list cached with checksummed targets, the action asked for
\* in lower case: the proof of the match, one sibling long
C28_Witness ==
  /\ Returned("boundedExecute")
  /\ call.args.proof = <<>>
  /\ ret.kind = "ok"
  /\ call.args.policyId \in DOMAIN policyActions
  /\ Len(policyActions[call.args.policyId]) = 2
  /\ FirstMatch(policyActions[call.args.policyId], call.args.action) = 1
  /\ policyActions[call.args.policyId][2].target # call.args.action.target
  /\ Len(SubmittedProof) = 1

\* C25: the intent createIntent returns passes validateIntent at the clock
\* time it was built, whatever the options and their ttlSeconds.
C25_BuiltIntentValid ==
  Returned("createIntent") => validateIntent(ret.val.intent, now).kind = "ok"

\* C26: two propose calls for the same agentId never submit two intents
\* that carry the same nonce.
C26_DistinctNonces ==
  \A i \in 1..Len(proc.txs), j \in 1..Len(peer.txs) :
    proc.txs[i].intent.nonce # peer.txs[j].intent.nonce

WriteOps ==
  {"propose", "accept", "execute", "cancel", "registerPolicy", "boundedExecute",
   "revokePolicy"}

\* the client has no wallet, or a wallet without an account
NoSigner(c) == ~c.wallet.client \/ c.wallet.account = <<>>

C30_NoneKeepsPolling ==
  call.op = "waitForReady" =>
    /\ (proc.reads >= 1 /\ StatusAt(proc.reads) = None) =>
         /\ ret \in {Pending, TimeoutError}
         /\ proc.sleeps = proc.reads - 1 =>
              /\ ret = Pending
              /\ proc.pc = "sleep"
              /\ ENABLED WaitSleep
    /\ (ret # Pending /\ \A i \in 1..proc.reads : StatusAt(i) = None) =>
         ret = TimeoutError

\* a ledger that reported None at each of two or more reads, ended by the
\* Timeout error
C30_Witness ==
  /\ call.op = "waitForReady"
  /\ \A i \in 1..Len(call.reports) : StatusAt(i) = None
  /\ proc.reads >= 2
  /\ proc.sleeps = proc.reads
  /\ ret = TimeoutError

====
